---- MODULE Spec2Model ----
(***************************************************************************)
(* A model of the data-ingestion pipeline of src/src/data_loader.py        *)
(* (ScientificDataProcessor) and of its caller src/main.py.                *)
(*                                                                         *)
(* The raw directory, the platform (which decides how glob matches the     *)
(* case of an extension), the order in which a directory walk lists its    *)
(* files, the iteration order of a Python set and the state of the         *)
(* process-wide random generator before it is seeded are the environment;  *)
(* each is drawn from a bounded family.  Everything else is computed the   *)
(* way the code computes it.                                               *)
(***************************************************************************)
EXTENDS Integers, Sequences, FiniteSets, TLC

(***************************************************************************)
(* Bounds of the model.                                                    *)
(***************************************************************************)
\* Largest number of image files in an enumerated ("small") raw directory.
MaxSmallImages == 3
\* Largest number of <object> blocks in an enumerated annotation file.
MaxObjects == 2
\* Longest list of discovered images.
MaxDiscovered == 100

(***************************************************************************)
(* Generic helpers.                                                        *)
(***************************************************************************)
SeqToSet(s) == {s[i] : i \in DOMAIN s}

Reverse(s) == [i \in 1..Len(s) |-> s[Len(s) + 1 - i]]

Abs(x) == IF x < 0 THEN -x ELSE x

RECURSIVE BitLength(_)
\* int.bit_length() of a natural number.
BitLength(x) == IF x = 0 THEN 0 ELSE 1 + BitLength(x \div 2)

(***************************************************************************)
(* Annotation files.  A text field of the markup is                        *)
(*   "num"     text that int()/float() accepts, with its value,            *)
(*   "bad"     text that int()/float() rejects (ValueError),               *)
(*   "empty"   an element without text: .text is None (TypeError, or       *)
(*             AttributeError on .lower()),                                *)
(*   "missing" no such element: find() returns None (AttributeError),      *)
(*   "text"    the text of a <name> element.                               *)
(***************************************************************************)
Num(v) == [k |-> "num", v |-> v, s |-> ""]
Bad == [k |-> "bad", v |-> 0, s |-> ""]
Empty == [k |-> "empty", v |-> 0, s |-> ""]
Missing == [k |-> "missing", v |-> 0, s |-> ""]
Txt(s) == [k |-> "text", v |-> 0, s |-> s]

Box(xmin, xmax, ymin, ymax) ==
    [present |-> TRUE, xmin |-> xmin, xmax |-> xmax, ymin |-> ymin, ymax |-> ymax]
NoBox ==
    [present |-> FALSE, xmin |-> Missing, xmax |-> Missing,
     ymin |-> Missing, ymax |-> Missing]

Obj(name, bndbox) == [name |-> name, bndbox |-> bndbox]

Size(width, height) == [present |-> TRUE, width |-> width, height |-> height]
NoSize == [present |-> FALSE, width |-> Missing, height |-> Missing]

XmlDoc(size, objects) == [wellformed |-> TRUE, size |-> size, objects |-> objects]
\* Markup that ET.parse rejects.
Malformed == [wellformed |-> FALSE, size |-> NoSize, objects |-> <<>>]

\* self.classes
classes == <<"person">>

\* str.lower().strip() on the label texts the model draws.
LowerStrip(s) ==
    CASE s \in {"person", "Person ", " PERSON"} -> "person"
      [] s \in {"dog", "Dog"} -> "dog"
      [] OTHER -> s

\* list.index(): the 0-based position of name in seq.
IndexOf(seq, name) == (CHOOSE i \in DOMAIN seq : seq[i] = name) - 1

\* a/b rounded to the nearest integer, ties to even; a >= 0, b > 0.
RoundHalfEven(a, b) ==
    LET q == a \div b
        r == a % b
    IN  IF 2 * r > b \/ (2 * r = b /\ q % 2 = 1) THEN q + 1 ELSE q

\* f"{num/den:.6f}" as a count of millionths: the text "0.300000" is 300000.
\* The model's widths and heights stay below 256, where no quotient
\* k/(2w) falls on a half millionth, so the double's rounding and the
\* fraction's agree.
Fmt6(num, den) ==
    LET sgn == IF (num < 0) # (den < 0) THEN -1 ELSE 1
    IN  sgn * RoundHalfEven(Abs(num) * 1000000, Abs(den))

\* What a run of the try block ends with: an exception, or a returned list.
Raise(exc) == [raised |-> TRUE, exc |-> exc, lines |-> <<>>]
Return(lines) == [raised |-> FALSE, exc |-> "", lines |-> lines]

\* The exception reading .text of a field and converting it raises, or "".
ReadError(f) ==
    CASE f.k = "missing" -> "AttributeError"
      [] f.k = "empty" -> "TypeError"
      [] f.k = "bad" -> "ValueError"
      [] OTHER -> ""

\* A line whose centre is not halved.
YoloLineNoHalving(cls_id, bnd, w, h) ==
    LET box == <<bnd.xmin.v, bnd.xmax.v, bnd.ymin.v, bnd.ymax.v>>
    IN  [cls |-> cls_id,
         cx |-> Fmt6(box[2] + box[1], w),
         cy |-> Fmt6(box[4] + box[3], h),
         bw |-> Fmt6(box[2] - box[1], w),
         bh |-> Fmt6(box[4] - box[3], h)]

\* The line appended for one accepted object (lines 82-88).
YoloLine(cls_id, bnd, w, h) ==
    LET box == <<bnd.xmin.v, bnd.xmax.v, bnd.ymin.v, bnd.ymax.v>>
    IN  [cls |-> cls_id,
         cx |-> Fmt6(box[2] + box[1], 2 * w),
         cy |-> Fmt6(box[4] + box[3], 2 * h),
         bw |-> Fmt6(box[2] - box[1], w),
         bh |-> Fmt6(box[4] - box[3], h)]

RECURSIVE ObjectLoop(_, _, _, _, _, _)
\* for obj in root.findall('object') (lines 74-90).
ObjectLoop(objs, i, w, h, yolo_lines, found_person) ==
    IF i > Len(objs)
    THEN Return(IF found_person THEN yolo_lines ELSE <<>>)
    ELSE LET obj == objs[i]
             bnd == obj.bndbox
         IN  IF obj.name.k # "text"
             THEN Raise("AttributeError")
             ELSE IF LowerStrip(obj.name.s) \notin SeqToSet(classes)
             THEN ObjectLoop(objs, i + 1, w, h, yolo_lines, found_person)
             ELSE IF ~bnd.present
             THEN Raise("AttributeError")
             ELSE IF ReadError(bnd.xmin) # "" THEN Raise(ReadError(bnd.xmin))
             ELSE IF ReadError(bnd.xmax) # "" THEN Raise(ReadError(bnd.xmax))
             ELSE IF ReadError(bnd.ymin) # "" THEN Raise(ReadError(bnd.ymin))
             ELSE IF ReadError(bnd.ymax) # "" THEN Raise(ReadError(bnd.ymax))
             ELSE ObjectLoop(objs, i + 1, w, h,
                             Append(yolo_lines,
                                    YoloLine(IndexOf(classes, LowerStrip(obj.name.s)),
                                             bnd, w, h)),
                             TRUE)

\* The body of the try block of convert_xml (lines 62-90).
ConvertTry(xml) ==
    IF ~xml.wellformed THEN Raise("ParseError")
    ELSE IF ~xml.size.present THEN Return(<<>>)
    ELSE IF ReadError(xml.size.width) # "" THEN Raise(ReadError(xml.size.width))
    ELSE IF ReadError(xml.size.height) # "" THEN Raise(ReadError(xml.size.height))
    ELSE IF xml.size.width.v = 0 \/ xml.size.height.v = 0 THEN Return(<<>>)
    ELSE ObjectLoop(xml.objects, 1, xml.size.width.v, xml.size.height.v, <<>>, FALSE)

\* A handler that catches ValueError alone.
ExceptValueErrorOnly(r) ==
    IF r.raised /\ r.exc = "ValueError" THEN Return(<<>>) ELSE r

\* except Exception: return [] (lines 91-92).
ExceptException(r) == IF r.raised THEN Return(<<>>) ELSE r

\* convert_xml: what the call ends with.
convert_xml(xml) == ExceptException(ConvertTry(xml))

(***************************************************************************)
(* int(n * 0.7) and int(n * 0.85): the product of an integer and a double, *)
(* rounded to a double (53 significant bits, ties to even), then truncated.*)
(* A double c with 1/2 <= c < 1 is m * 2^-53 for a 53-bit integer m, kept  *)
(* here as three 18-bit limbs <<a2, a1, a0>>, m = a2*2^36 + a1*2^18 + a0.  *)
(***************************************************************************)
\* The double nearest 0.7: 6305039478318694 * 2^-53 (line 119).
Double070 == <<91750, 104857, 157286>>
\* The double nearest 0.85: 7656119366529843 * 2^-53 (line 120).
Double085 == <<111411, 52428, 209715>>

\* int(n * c) for 0 <= n < 2^12.  With n*m = I*2^53 + F, the product has
\* 53 + BitLength(I) bits, so rounding drops BitLength(I) bits and carries
\* into the integer part exactly when F >= 2^53 - 2^(BitLength(I) - 1).
IntOfProduct(n, c) ==
    LET limb == 262144
        p0 == n * c[3]
        p1 == n * c[2] + p0 \div limb
        p2 == n * c[1] + p1 \div limb
        l0 == p0 % limb
        l1 == p1 % limb
        I == p2 \div 131072
        fh == p2 % 131072
        carries == /\ I >= 1
                   /\ fh = 131071
                   /\ l1 = limb - 1
                   /\ limb - l0 <= 2 ^ (BitLength(I) - 1)
    IN  IF carries THEN I + 1 ELSE I

\* int(n * 0.7) (line 119).
TrainEnd(n) == IntOfProduct(n, Double070)

\* int(n * 0.85) (line 120).
ValEnd(n) == IntOfProduct(n, Double085)

\* The slices of lines 118-122.
Slices(images) ==
    LET n == Len(images)
    IN  [train |-> SubSeq(images, 1, TrainEnd(n)),
         val |-> SubSeq(images, TrainEnd(n) + 1, ValEnd(n)),
         test |-> SubSeq(images, ValEnd(n) + 1, n)]

(***************************************************************************)
(* The process-wide generator of the random module (the Mersenne Twister). *)
(* Its state is the stream it is on and the number of 32-bit words drawn   *)
(* from it.  Only the top 8 bits of a word are ever used: getrandbits(k)   *)
(* is word >> (32 - k), and k <= 8 for lists shorter than 256.             *)
(***************************************************************************)
\* The seed of line 114.
SplitSeed == 42

\* Top bytes of the first words the generator yields after seed(42).
Stream42 ==
  << 163, 28, 6, 189, 70, 62, 57, 35, 188, 26, 173, 189, 228, 139, 22, 151, 108, 8, 7, 23,
     55, 59, 129, 154, 6, 143, 50, 183, 166, 179, 139, 107, 56, 114, 150, 71, 207, 222, 1, 194,
     206, 40, 178, 108, 87, 71, 39, 55, 245, 195, 86, 26, 23, 97, 24, 91, 216, 88, 154, 67,
     206, 11, 186, 117, 137, 31, 249, 236, 96, 20, 141, 75, 212, 160, 158, 226, 220, 92, 147, 49,
     180, 17, 11, 169, 58, 197, 74, 252, 20, 218, 59, 221, 25, 97, 71, 116, 162, 213, 93, 41,
     94, 90, 53, 171, 68, 179, 239, 174, 165, 18, 155, 162, 43, 136, 186, 62, 41, 118, 97, 69,
     253, 236, 163, 176, 142, 56, 175, 83, 215, 196, 198, 14, 58, 210, 8, 206, 80, 102, 68, 16,
     54, 233, 241, 145, 224, 183, 80, 54, 167, 127, 101, 226, 234, 164, 117, 36, 67, 35, 63, 190,
     143, 137, 67, 191, 149, 109, 229, 149, 102, 92, 56, 255, 255, 35, 130, 126, 23, 193, 12, 220,
     28, 39, 160, 40, 202, 174, 108, 152, 16, 98, 97, 152, 255, 119, 135, 64, 248, 141, 220, 241,
     2, 174, 184, 29, 174, 226, 137, 192, 68, 196, 164, 87, 28, 75, 111, 40, 116, 0, 244, 184,
     224, 184, 67, 248, 128, 195, 45, 129, 233, 27, 222, 160, 76, 215, 163, 129, 155, 50, 39, 95,
     195, 41, 138, 244, 199, 236, 135, 235, 0, 153, 82, 125, 4, 28, 237, 92, 224, 252, 212, 206,
     78, 61, 14, 61, 224, 145, 242, 20, 21, 187, 124, 208, 17, 250, 194, 136, 196, 32, 32, 168,
     121, 242, 140, 42, 67, 135, 223, 155, 108, 246, 54, 237, 138, 193, 186, 176, 51, 182, 79, 102 >>

\* Two of the streams a generator seeded from the operating system's entropy
\* (the state of a fresh process) can be on.
StreamOsA ==
  << 82, 242, 38, 101, 166, 12, 18, 210, 137, 24, 93, 149, 14, 232, 129, 54, 9, 22, 111, 107,
     17, 61, 23, 141, 108, 15, 211, 144, 31, 242, 57, 161, 160, 149, 242, 15, 147, 149, 101, 12,
     249, 56, 11, 142, 219, 34, 74, 107, 36, 138, 30, 146, 78, 143, 208, 174, 46, 26, 148, 146,
     163, 48, 95, 24 >>
StreamOsB ==
  << 34, 145, 216, 205, 195, 16, 65, 30, 126, 194, 115, 120, 166, 97, 201, 53, 24, 124, 7, 228,
     213, 99, 110, 155, 195, 196, 0, 178, 114, 68, 184, 205, 58, 151, 241, 26, 230, 81, 7, 5,
     6, 166, 138, 2, 240, 225, 97, 175, 55, 248, 108, 185, 7, 135, 56, 195, 112, 240, 126, 141,
     59, 88, 59, 173 >>

OsStreams == {"osA", "osB"}

StreamWords(stream) ==
    CASE stream = "seed42" -> Stream42
      [] stream = "osA" -> StreamOsA
      [] OTHER -> StreamOsB

\* A generator left as it was: no reseeding.
KeepState(state, a) == state

\* random.seed(a) (line 114): the state after seeding does not depend on
\* the state before.
random_seed(state, a) == [stream |-> IF a = 42 THEN "seed42" ELSE "osA", pos |-> 0]

\* getrandbits(k), 1 <= k <= 8: the value of the next word's top k bits.
getrandbits(state, k) == StreamWords(state.stream)[state.pos + 1] \div (2 ^ (8 - k))

RECURSIVE randbelow(_, _)
\* Random._randbelow_with_getrandbits(n): draw BitLength(n) bits until the
\* value is below n.
randbelow(state, n) ==
    LET r == getrandbits(state, BitLength(n))
        next == [state EXCEPT !.pos = @ + 1]
    IN  IF r < n THEN [val |-> r, rng |-> next] ELSE randbelow(next, n)

Swap(x, i, j) == [x EXCEPT ![i] = x[j], ![j] = x[i]]

RECURSIVE ShuffleFrom(_, _, _)
\* for i in reversed(range(1, len(x))): j = randbelow(i + 1); swap x[i], x[j]
\* (i and j count from 0, the sequence from 1).
ShuffleFrom(x, i, state) ==
    IF i < 1 \/ Len(x) < 2 THEN [list |-> x, rng |-> state]
    ELSE LET d == randbelow(state, i + 1)
         IN  ShuffleFrom(Swap(x, i + 1, d.val + 1), i - 1, d.rng)

\* random.shuffle(x) (line 115).
random_shuffle(x, state) == ShuffleFrom(x, Len(x) - 1, state)

(***************************************************************************)
(* The file system as the code sees it.                                    *)
(***************************************************************************)
Platforms == {"posix", "windows"}

\* str.lower() on the extensions the model draws.
LowerExt(e) ==
    CASE e = "JPG" -> "jpg"
      [] e = "XML" -> "xml"
      [] OTHER -> e

\* fnmatch of a file's extension against the pattern '*.<pat>': glob
\* normalises the case of both on Windows (os.path.normcase) and of
\* neither elsewhere.
Matches(platform, ext, pat) ==
    IF platform = "windows" THEN LowerExt(ext) = LowerExt(pat) ELSE ext = pat

\* An image file <raw>/.../<dir>/<stem>.<ext>.
Image(dir, stem, ext) == [dir |-> dir, stem |-> stem, ext |-> ext]

\* An annotation file <raw>/.../<dir>/<stem>[.<inner>].<ext> and what it holds.
XmlFile(dir, stem, inner, ext, content) ==
    [dir |-> dir, stem |-> stem, inner |-> inner, ext |-> ext, content |-> content]

\* A membership list <ImageSets>/<name>.txt; a line is its sequence of
\* whitespace-separated tokens (a blank line has none).
TxtFile(name, lines) == [name |-> name, lines |-> lines]

\* The directory names of the model, in the order a walk visits them.
DirNames == <<"Annotations", "Baroque", "Cubism", "JPEGImages", "Other">>
DirRank(d) == CHOOSE i \in DOMAIN DirNames : DirNames[i] = d
ExtRank(e) ==
    CASE e \in {"jpg", "xml"} -> 0
      [] e \in {"JPG", "XML"} -> 1
      [] OTHER -> 2

\* The place of a file in the walk of an unchanged directory tree.
ImageRank(f) == DirRank(f.dir) * 10000 + f.stem * 10 + ExtRank(f.ext)
XmlRank(f) == DirRank(f.dir) * 10000 + f.stem * 10 + ExtRank(f.ext) * 3 + ExtRank(f.inner)

\* The members of a set of integers in ascending order.
SortedInts(S) ==
    [i \in 1..Cardinality(S) |->
        CHOOSE x \in S : Cardinality({y \in S : y < x}) = i - 1]

\* The files of a set in walk order, or in the opposite order.
ImageWalk(files, rev) ==
    LET ranks == SortedInts({ImageRank(f) : f \in files})
        walk == [i \in 1..Len(ranks) |-> CHOOSE f \in files : ImageRank(f) = ranks[i]]
    IN  IF rev THEN Reverse(walk) ELSE walk
XmlWalk(files, rev) ==
    LET ranks == SortedInts({XmlRank(f) : f \in files})
        walk == [i \in 1..Len(ranks) |-> CHOOSE f \in files : XmlRank(f) = ranks[i]]
    IN  IF rev THEN Reverse(walk) ELSE walk

\* glob.glob(<raw>/**/*.<pat>, recursive=True) over the walk.
Glob(platform, walk, pat) == SelectSeq(walk, LAMBDA f : Matches(platform, f.ext, pat))

\* An item identifier: a file name without its extension.
Id(stem, inner) == [stem |-> stem, inner |-> inner]

\* file_id = os.path.splitext(os.path.basename(img_path))[0] (lines 133-134).
FileId(img) == Id(img.stem, "")

\* The key of an annotation file (lines 28-34).
XmlKey(x) ==
    IF x.inner # "" /\ LowerExt(x.inner) \in {"jpg", "jpeg", "png"}
    THEN Id(x.stem, "")
    ELSE Id(x.stem, x.inner)

\* dict[k] = v
Put(map, k, v) == [x \in DOMAIN map \cup {k} |-> IF x = k THEN v ELSE map[x]]
EmptyMap == <<>>

\* for x in xmls: self.xml_map[key] = x (lines 26-35): a key ends up with
\* the last file of the iteration that has it.
IndexFold(xmls, map) ==
    LET Last(k) == CHOOSE i \in DOMAIN xmls :
                      /\ XmlKey(xmls[i]) = k
                      /\ \A j \in DOMAIN xmls : XmlKey(xmls[j]) = k => j <= i
    IN  [k \in DOMAIN map \cup {XmlKey(xmls[i]) : i \in DOMAIN xmls} |->
            IF \E i \in DOMAIN xmls : XmlKey(xmls[i]) = k
            THEN xmls[Last(k)]
            ELSE map[k]]

\* The reserved list names of line 53.
ReservedLists == {"train", "test", "val", "trainval"}
LowerName(s) ==
    CASE s = "Train" -> "train"
      [] s = "TrainVal" -> "trainval"
      [] OTHER -> s

\* for line in f: img_id = line.strip().split()[0] (lines 55-57).  An empty
\* token list has no [0]: the loop ends there with an IndexError, the
\* lines before it assigned.
LinesFold(lines, style_name, acc) ==
    LET blank == {i \in DOMAIN lines : lines[i] = <<>>}
        stop == IF blank = {} THEN Len(lines) + 1
                ELSE CHOOSE i \in blank : \A j \in blank : i <= j
        ids == {Id(lines[i][1], "") : i \in 1..(stop - 1)}
    IN  [raised |-> blank # {},
         map |-> [k \in DOMAIN acc.map \cup ids |->
                     IF k \in ids THEN style_name ELSE acc.map[k]]]

RECURSIVE StylesFold(_, _, _)
\* for txt in txt_files (lines 51-57)
StylesFold(txts, i, acc) ==
    IF acc.raised \/ i > Len(txts) THEN acc
    ELSE IF LowerName(txts[i].name) \in ReservedLists
    THEN StylesFold(txts, i + 1, acc)
    ELSE StylesFold(txts, i + 1, LinesFold(txts[i].lines, txts[i].name, acc))

\* The directory names of line 159.
Blocklist == {"JPEGImages", "images", "train", "val", "test"}

\* A blocklist that lacks 'JPEGImages'.
StyleOfShortBlocklist(img, has_sets, smap) ==
    IF has_sets /\ FileId(img) \in DOMAIN smap
    THEN smap[FileId(img)]
    ELSE IF img.dir \notin (Blocklist \ {"JPEGImages"}) THEN img.dir ELSE "Unknown"

\* The style of lines 154-160.
StyleOf(img, has_sets, smap) ==
    IF has_sets /\ FileId(img) \in DOMAIN smap
    THEN smap[FileId(img)]
    ELSE IF img.dir \notin Blocklist THEN img.dir ELSE "Unknown"

\* Persisting from 5 members on.
PersistFromFive(paths) == Len(paths) >= 5

\* len(paths) > 5 (line 167)
Persisted(paths) == Len(paths) > 5

\* dest_path (line 144): <processed>/images/<split>/<fname>.
DestPath(split, img) == [split |-> split, stem |-> img.stem, ext |-> img.ext]

\* The file a path names: the case of a name is no part of it on Windows.
FileOf(platform, path) ==
    IF platform = "windows" THEN [path EXCEPT !.ext = LowerExt(@)] ELSE path

\* Every label file is written into labels/train.
LabelPathTrainOnly(split, id) == [split |-> "train", id |-> id]

\* <processed>/labels/<split>/<file_id>.txt (line 147)
LabelPath(split, id) == [split |-> split, id |-> id]

\* The keys of splits, in the order the dict holds them (lines 118-122).
SplitNames == <<"train", "val", "test">>

(***************************************************************************)
(* The raw directories the model draws.                                    *)
(***************************************************************************)
PersonBox == Box(Num(10), Num(50), Num(10), Num(90))

\* One 'person' at (10,50,10,90) on a 100x100 image.
GoodXml == XmlDoc(Size(Num(100), Num(100)), <<Obj(Txt("person"), PersonBox)>>)
\* Another valid annotation, with other lines.
GoodXml2 ==
    XmlDoc(Size(Num(200), Num(100)),
           <<Obj(Txt("dog"), NoBox),
             Obj(Txt("Person "), Box(Num(0), Num(100), Num(0), Num(50)))>>)
NoPersonXml == XmlDoc(Size(Num(100), Num(100)), <<Obj(Txt("dog"), PersonBox)>>)
ZeroWidthXml == XmlDoc(Size(Num(0), Num(100)), <<Obj(Txt("person"), PersonBox)>>)

NoImageSets == [loc |-> "absent", files |-> <<>>]

RawDir(images, xmls, imagesets) ==
    [exists |-> TRUE, images |-> images, xmls |-> xmls, imagesets |-> imagesets]
\* No raw directory at all.
NoRawDir == [exists |-> FALSE, images |-> {}, xmls |-> {}, imagesets |-> NoImageSets]

SmallPool ==
    {Image(d, s, "jpg") : d \in {"JPEGImages", "Cubism"}, s \in {1, 2}}
    \cup {Image(d, 1, "JPG") : d \in {"JPEGImages", "Cubism"}}

SmallImageSets(max) == {S \in SUBSET SmallPool : Cardinality(S) <= max}

SmallXmlSets ==
    { {},
      {XmlFile("Annotations", 1, "", "xml", GoodXml),
       XmlFile("Annotations", 2, "jpg", "xml", GoodXml2)},
      {XmlFile("Annotations", 1, "", "xml", GoodXml),
       XmlFile("Other", 1, "JPG", "XML", GoodXml2),
       XmlFile("Annotations", 2, "", "xml", NoPersonXml)},
      {XmlFile("Annotations", 1, "", "XML", ZeroWidthXml),
       XmlFile("Other", 1, "", "xml", GoodXml),
       XmlFile("Annotations", 2, "bak", "xml", GoodXml),
       XmlFile("Other", 2, "", "xml", Malformed)} }

SmallImageSetsDirs ==
    { NoImageSets,
      [loc |-> "top",
       files |-> <<TxtFile("Baroque", << <<1>>, <<2, 7>> >>),
                   TxtFile("Cubism", << <<1>> >>),
                   TxtFile("trainval", << <<1>>, <<2>> >>)>>],
      [loc |-> "nested",
       files |-> <<TxtFile("Cubism", << <<1>>, <<>>, <<2>> >>)>>],
      [loc |-> "top", files |-> <<TxtFile("Train", << <<1>> >>)>>] }

SmallRaws(max) ==
    {RawDir(I, X, S) : I \in SmallImageSets(max), X \in SmallXmlSets,
                       S \in SmallImageSetsDirs}

\* Directories of n images 1.jpg .. n.jpg, each annotated (all but every
\* fifth when sparse), in one folder or spread over two.
LargeSizes == {17, 20, 33, 34, 90}
Layouts == {"flat", "one", "mixed"}
LayoutDir(layout, i) ==
    CASE layout = "flat" -> "JPEGImages"
      [] layout = "one" -> "Cubism"
      [] OTHER -> IF i % 2 = 1 THEN "Cubism" ELSE "Baroque"

LargeRaw(n, layout, sparse, listed) ==
    RawDir({Image(LayoutDir(layout, i), i, "jpg") : i \in 1..n},
           {XmlFile("Annotations", i, "", "xml", GoodXml) :
               i \in {j \in 1..n : ~sparse \/ j % 5 # 0}},
           IF listed
           THEN [loc |-> "top", files |-> <<TxtFile("Cubism", [i \in 1..n |-> <<i>>])>>]
           ELSE NoImageSets)

LargeRaws ==
    {LargeRaw(n, l, sp, li) : n \in LargeSizes, l \in Layouts,
                              sp \in BOOLEAN, li \in BOOLEAN}

\* A case-insensitive file system holds no two names that differ in case
\* alone (and there both globs list every image: the list is twice as long).
HoldsOn(platform, r) ==
    platform = "windows" =>
        /\ 2 * Cardinality(r.images) <= MaxDiscovered
        /\ \A f, g \in r.images :
              (f.dir = g.dir /\ f.stem = g.stem /\ LowerExt(f.ext) = LowerExt(g.ext))
                  => f = g
        /\ \A f, g \in r.xmls :
              (f.dir = g.dir /\ f.stem = g.stem /\ LowerExt(f.inner) = LowerExt(g.inner)
                 /\ LowerExt(f.ext) = LowerExt(g.ext))
                  => f.ext = g.ext /\ f.inner = g.inner

(***************************************************************************)
(* The state.                                                              *)
(***************************************************************************)
VARIABLES
    raw,                \* the raw directory (never written)
    platform,           \* "posix" or "windows"
    run,                \* 1 for the first run of main, 2 for the second
    pc,                 \* where main is
    error,              \* the exception that left main, or "none"
    phases_run,         \* whether main got to the experiment phases
    rng,                \* the state of the random module's generator
    xml_map,            \* self.xml_map
    style_map,          \* self.style_map
    has_imagesets,      \* the local of line 103
    discovered,         \* images, as globbed (lines 106-107)
    splits,             \* the local of lines 118-122
    si,                 \* the position of the outer loop in SplitNames
    ii,                 \* the position of the inner loop in the subset
    entered,            \* whether the subset's directories were made
    stats,              \* self.stats
    processed_count,    \* the local of line 126
    style_file_buffers, \* the local of line 125
    log,                \* history: the items that were copied, in order
    out_exists,         \* whether the processed root exists
    out_stale,          \* whether it holds a file of an earlier run
    out_dirs,           \* the directories made below it
    out_images,         \* the image files below it: file -> source image
    out_labels,         \* the label files below it: file -> lines
    out_lists,          \* the style list files: style -> paths
    yaml,               \* whether peopleart_replication.yaml was written
    prev,               \* history: what the first run left
    cx_xml,             \* the annotation file handed to convert_xml
    cx_called,          \* whether convert_xml was called on it
    cx_result           \* what that call ended with

env == <<raw, platform>>
ctl == <<run, pc, error, phases_run>>
proc == <<xml_map, style_map, has_imagesets, stats>>
loop == <<discovered, splits, si, ii, entered, processed_count,
          style_file_buffers, log>>
out == <<out_exists, out_stale, out_dirs, out_images, out_labels, out_lists, yaml>>
cx == <<cx_xml, cx_called, cx_result>>
vars == <<env, ctl, rng, proc, loop, out, prev, cx>>

NoSplits == [train |-> <<>>, val |-> <<>>, test |-> <<>>]
ZeroStats == [train |-> 0, val |-> 0, test |-> 0]
NoPrev ==
    [outcome |-> "none", error |-> "none", discovered |-> <<>>, splits |-> NoSplits,
     out_labels |-> EmptyMap, out_images |-> EmptyMap, out_lists |-> EmptyMap]

\* The state of a process that is about to call main().
InitOn(raws) ==
    /\ raw \in raws
    /\ platform \in {p \in Platforms : HoldsOn(p, raw)}
    /\ run = 1
    /\ pc = "main"
    /\ error = "none"
    /\ phases_run = FALSE
    /\ rng \in {[stream |-> st, pos |-> 0] : st \in OsStreams}
    /\ xml_map = EmptyMap
    /\ style_map = EmptyMap
    /\ has_imagesets = FALSE
    /\ stats = ZeroStats
    /\ discovered = <<>>
    /\ splits = NoSplits
    /\ si = 1
    /\ ii = 1
    /\ entered = FALSE
    /\ processed_count = 0
    /\ style_file_buffers = EmptyMap
    /\ log = <<>>
    /\ out_exists \in BOOLEAN
    /\ out_stale \in {s \in BOOLEAN : s => out_exists}
    /\ out_dirs = {}
    /\ out_images = EmptyMap
    /\ out_labels = EmptyMap
    /\ out_lists = EmptyMap
    /\ yaml = FALSE
    /\ prev = NoPrev
    /\ cx_xml = Malformed
    /\ cx_called = FALSE
    /\ cx_result = Return(<<>>)

(***************************************************************************)
(* main() and ScientificDataProcessor.prepare_data_split(), step by step.  *)
(***************************************************************************)
\* An exception leaves prepare_data_split and, uncaught, main.
Crash(exc) == pc' = "crashed" /\ error' = exc

\* main, lines 9-17: the requirement check and ScientificDataProcessor().
MainStart ==
    /\ pc = "main"
    /\ IF ~raw.exists
       THEN /\ pc' = "returned"
            /\ UNCHANGED proc
       ELSE /\ pc' = "clean"
            /\ xml_map' = EmptyMap
            /\ style_map' = EmptyMap
            /\ stats' = ZeroStats
            /\ UNCHANGED has_imagesets
    /\ UNCHANGED <<env, run, error, phases_run, rng, loop, out, prev, cx>>

\* shutil.rmtree(self.processed_path) when it exists (lines 96-97).
Clean ==
    /\ pc = "clean"
    /\ pc' = "index"
    /\ out_exists' = FALSE
    /\ out_stale' = FALSE
    /\ out_dirs' = {}
    /\ out_images' = EmptyMap
    /\ out_labels' = EmptyMap
    /\ out_lists' = EmptyMap
    /\ UNCHANGED <<env, run, error, phases_run, rng, proc, loop, yaml, prev, cx>>

\* _index_xml_files (lines 19-37); the set is iterated in an order of its own.
IndexXml ==
    /\ pc = "index"
    /\ \E rev \in BOOLEAN :
          LET xmls == {x \in raw.xmls : \/ Matches(platform, x.ext, "xml")
                                        \/ Matches(platform, x.ext, "XML")}
          IN  xml_map' = IndexFold(XmlWalk(xmls, rev), xml_map)
    /\ pc' = "styles"
    /\ UNCHANGED <<env, run, error, phases_run, rng, style_map, has_imagesets, stats,
                   loop, out, prev, cx>>

\* _load_styles_from_imagesets (lines 39-58) and line 103.
LoadStyles ==
    /\ pc = "styles"
    /\ IF raw.imagesets.loc \notin {"top", "nested"}
       THEN /\ has_imagesets' = FALSE
            /\ pc' = "discover"
            /\ UNCHANGED <<style_map, error>>
       ELSE \E rev \in BOOLEAN :
               LET txt_files == IF rev THEN Reverse(raw.imagesets.files)
                                ELSE raw.imagesets.files
                   res == StylesFold(txt_files, 1, [raised |-> FALSE, map |-> style_map])
               IN  /\ style_map' = res.map
                   /\ IF res.raised
                      THEN /\ Crash("IndexError")
                           /\ UNCHANGED has_imagesets
                      ELSE /\ has_imagesets' = TRUE
                           /\ pc' = "discover"
                           /\ UNCHANGED error
    /\ UNCHANGED <<env, run, phases_run, rng, xml_map, stats, loop, out, prev, cx>>

\* The two globs of lines 106-107 and the check of lines 109-110.
Discover ==
    /\ pc = "discover"
    /\ \E rev \in BOOLEAN :
          LET walk == ImageWalk(raw.images, rev)
              images == Glob(platform, walk, "jpg") \o Glob(platform, walk, "JPG")
          IN  /\ discovered' = images
              /\ IF images = <<>>
                 THEN Crash("FileNotFoundError")
                 ELSE pc' = "shuffle" /\ UNCHANGED error
    /\ UNCHANGED <<env, run, phases_run, rng, proc, splits, si, ii, entered,
                   processed_count, style_file_buffers, log, out, prev, cx>>

\* Lines 114-126: seed, shuffle, slice, make the style list directory.
ShuffleSplit ==
    /\ pc = "shuffle"
    /\ LET shuffled == random_shuffle(discovered, random_seed(rng, SplitSeed))
       IN  /\ rng' = shuffled.rng
           /\ splits' = Slices(shuffled.list)
    /\ out_exists' = TRUE
    /\ out_dirs' = out_dirs \cup {<<"style_lists", "">>}
    /\ style_file_buffers' = EmptyMap
    /\ processed_count' = 0
    /\ si' = 1
    /\ ii' = 1
    /\ entered' = FALSE
    /\ pc' = "process"
    /\ UNCHANGED <<env, run, error, phases_run, proc, discovered, log, out_stale,
                   out_images, out_labels, out_lists, yaml, prev, cx>>

\* The two makedirs of lines 129-130.
EnterSplit ==
    /\ pc = "process"
    /\ ~entered
    /\ entered' = TRUE
    /\ out_dirs' = out_dirs \cup {<<"images", SplitNames[si]>>, <<"labels", SplitNames[si]>>}
    /\ UNCHANGED <<env, ctl, rng, proc, discovered, splits, si, ii, processed_count,
                   style_file_buffers, log, out_exists, out_stale, out_images,
                   out_labels, out_lists, yaml, prev, cx>>

\* One turn of the loop of lines 132-164.
ProcessImage ==
    /\ pc = "process"
    /\ entered
    /\ ii <= Len(splits[SplitNames[si]])
    /\ ii' = ii + 1
    /\ LET split == SplitNames[si]
           img_path == splits[split][ii]
           file_id == FileId(img_path)
           labels == IF file_id \in DOMAIN xml_map
                     THEN convert_xml(xml_map[file_id].content).lines
                     ELSE <<>>
           dest_path == DestPath(split, img_path)
           style == StyleOf(img_path, has_imagesets, style_map)
       IN  IF file_id \notin DOMAIN xml_map \/ labels = <<>>
           THEN UNCHANGED <<out_images, out_labels, stats, processed_count,
                            style_file_buffers, log>>
           ELSE /\ out_images' = Put(out_images, FileOf(platform, dest_path), img_path)
                /\ out_labels' = Put(out_labels, LabelPath(split, file_id), labels)
                /\ stats' = [stats EXCEPT ![split] = @ + 1]
                /\ processed_count' = processed_count + 1
                /\ style_file_buffers' =
                      IF split = "test" /\ style # "Unknown"
                      THEN Put(style_file_buffers, style,
                               Append(IF style \in DOMAIN style_file_buffers
                                      THEN style_file_buffers[style] ELSE <<>>,
                                      dest_path))
                      ELSE style_file_buffers
                /\ log' = Append(log, [img |-> img_path, split |-> split,
                                       style |-> style, dest |-> dest_path])
    /\ UNCHANGED <<env, ctl, rng, xml_map, style_map, has_imagesets, discovered, splits,
                   si, entered, out_exists, out_stale, out_dirs, out_lists, yaml, prev, cx>>

\* The inner loop is through: the next subset, or the end of the outer loop.
LeaveSplit ==
    /\ pc = "process"
    /\ entered
    /\ ii > Len(splits[SplitNames[si]])
    /\ IF si < Len(SplitNames)
       THEN /\ si' = si + 1
            /\ ii' = 1
            /\ entered' = FALSE
            /\ UNCHANGED pc
       ELSE /\ pc' = "persist"
            /\ UNCHANGED <<si, ii, entered>>
    /\ UNCHANGED <<env, run, error, phases_run, rng, proc, discovered, splits,
                   processed_count, style_file_buffers, log, out, prev, cx>>

RECURSIVE WriteLists(_, _, _)
\* for style, paths in style_file_buffers.items(): write when Persisted.
WriteLists(styles, buffers, files) ==
    IF styles = {} THEN files
    ELSE LET style == CHOOSE x \in styles : TRUE
         IN  WriteLists(styles \ {style}, buffers,
                        IF Persisted(buffers[style])
                        THEN Put(files, style, buffers[style])
                        ELSE files)

\* Lines 166-169.
Persist ==
    /\ pc = "persist"
    /\ out_lists' = WriteLists(DOMAIN style_file_buffers, style_file_buffers, out_lists)
    /\ pc' = "finish"
    /\ UNCHANGED <<env, run, error, phases_run, rng, proc, loop, out_exists, out_stale,
                   out_dirs, out_images, out_labels, yaml, prev, cx>>

\* Lines 174-177: the check of the count, then create_yaml (lines 179-188).
Finish ==
    /\ pc = "finish"
    /\ IF processed_count = 0
       THEN Crash("RuntimeError") /\ UNCHANGED yaml
       ELSE pc' = "prepared" /\ yaml' = TRUE /\ UNCHANGED error
    /\ UNCHANGED <<env, run, phases_run, rng, proc, loop, out_exists, out_stale,
                   out_dirs, out_images, out_labels, out_lists, prev, cx>>

\* main, lines 19-31: the experiment phases and the report.
RunPhases ==
    /\ pc = "prepared"
    /\ phases_run' = TRUE
    /\ pc' = "done"
    /\ UNCHANGED <<env, run, error, rng, proc, loop, out, prev, cx>>

\* main is started once more, in a fresh process, on the same raw directory;
\* what the first run wrote is still on disk.
Rerun ==
    /\ run = 1
    /\ pc \in {"done", "crashed"}
    /\ run' = 2
    /\ prev' = [outcome |-> pc, error |-> error, discovered |-> discovered,
                splits |-> splits, out_labels |-> out_labels,
                out_images |-> out_images, out_lists |-> out_lists]
    /\ pc' = "main"
    /\ error' = "none"
    /\ phases_run' = FALSE
    /\ rng' \in {[stream |-> st, pos |-> 0] : st \in OsStreams}
    /\ has_imagesets' = FALSE
    /\ discovered' = <<>>
    /\ splits' = NoSplits
    /\ si' = 1
    /\ ii' = 1
    /\ entered' = FALSE
    /\ processed_count' = 0
    /\ style_file_buffers' = EmptyMap
    /\ log' = <<>>
    /\ out_stale' = (out_stale \/ out_images # EmptyMap \/ out_labels # EmptyMap
                       \/ out_lists # EmptyMap)
    /\ UNCHANGED <<env, xml_map, style_map, stats, out_exists, out_dirs, out_images,
                   out_labels, out_lists, yaml, cx>>

\* A call of convert_xml on an annotation file of its own.
ConvertCall ==
    /\ pc = "convert"
    /\ ~cx_called
    /\ cx_called' = TRUE
    /\ cx_result' = convert_xml(cx_xml)
    /\ UNCHANGED <<env, ctl, rng, proc, loop, out, prev, cx_xml>>

Next ==
    \/ MainStart
    \/ Clean
    \/ IndexXml
    \/ LoadStyles
    \/ Discover
    \/ ShuffleSplit
    \/ EnterSplit
    \/ ProcessImage
    \/ LeaveSplit
    \/ Persist
    \/ Finish
    \/ RunPhases

Init == InitOn(SmallRaws(MaxSmallImages) \cup LargeRaws \cup {NoRawDir})

\* One run of main on any raw directory of the model.
Spec == Init /\ [][Next]_vars

(***************************************************************************)
(* Two runs of main, one after the other, on an unchanged raw directory.   *)
(***************************************************************************)
\* Largest number of image files in a raw directory that is processed twice.
MaxRerunImages == 2

RerunRaws ==
    {RawDir(I, X, S) : I \in SmallImageSets(MaxRerunImages), X \in SmallXmlSets,
                       S \in {d \in SmallImageSetsDirs : d.loc # "nested"}}
    \cup {LargeRaw(20, "one", FALSE, FALSE)}

InitRerun == InitOn(RerunRaws)

NextRerun == Next \/ Rerun

SpecRerun == InitRerun /\ [][NextRerun]_vars

(***************************************************************************)
(* convert_xml on its own, over a bounded set of annotation files.         *)
(***************************************************************************)
SizeInputs ==
    {NoSize, Size(Missing, Num(100)), Size(Empty, Num(100)), Size(Bad, Num(100)),
     Size(Num(0), Num(100)), Size(Num(100), Bad), Size(Num(100), Num(0)),
     Size(Num(100), Num(100)), Size(Num(64), Num(200))}

NameInputs == {Missing, Txt("Person "), Txt("dog")}

\* Two boxes inside every image drawn, one that leaves it, one with
\* xmin > xmax, and two that do not convert.
BoxInputs ==
    {NoBox,
     Box(Num(50), Num(60), Num(10), Num(90)),
     Box(Num(0), Num(64), Num(0), Num(100)),
     Box(Num(0), Num(120), Num(10), Num(250)),
     Box(Num(50), Num(10), Num(10), Num(90)),
     Box(Num(10), Bad, Num(10), Num(90)),
     Box(Num(10), Num(50), Num(10), Missing)}

ObjectInputs == {Obj(n, b) : n \in NameInputs, b \in BoxInputs}

RECURSIVE SeqsUpTo(_, _)
\* The sequences over S of length n or less.
SeqsUpTo(S, n) ==
    IF n = 0 THEN {<<>>}
    ELSE LET shorter == SeqsUpTo(S, n - 1)
         IN  shorter \cup {Append(q, x) : q \in shorter, x \in S}

XmlInputs(max) ==
    {Malformed} \cup {XmlDoc(sz, objs) : sz \in SizeInputs,
                                         objs \in SeqsUpTo(ObjectInputs, max)}

InitConvert ==
    /\ raw = NoRawDir
    /\ platform = "posix"
    /\ run = 1
    /\ pc = "convert"
    /\ error = "none"
    /\ phases_run = FALSE
    /\ rng = [stream |-> "osA", pos |-> 0]
    /\ xml_map = EmptyMap
    /\ style_map = EmptyMap
    /\ has_imagesets = FALSE
    /\ stats = ZeroStats
    /\ discovered = <<>>
    /\ splits = NoSplits
    /\ si = 1
    /\ ii = 1
    /\ entered = FALSE
    /\ processed_count = 0
    /\ style_file_buffers = EmptyMap
    /\ log = <<>>
    /\ out_exists = FALSE
    /\ out_stale = FALSE
    /\ out_dirs = {}
    /\ out_images = EmptyMap
    /\ out_labels = EmptyMap
    /\ out_lists = EmptyMap
    /\ yaml = FALSE
    /\ prev = NoPrev
    /\ cx_xml \in XmlInputs(MaxObjects)
    /\ cx_called = FALSE
    /\ cx_result = Return(<<>>)

NextConvert == ConvertCall

SpecConvert == InitConvert /\ [][NextConvert]_vars

(***************************************************************************)
(* The claims.                                                             *)
(***************************************************************************)
\* The subsets of lines 118-122 exist.
SplitBuilt ==
    \/ pc \in {"process", "persist", "finish", "prepared", "done"}
    \/ pc = "crashed" /\ error = "RuntimeError"

\* The loop of lines 128-164 is through.
LoopDone ==
    \/ pc \in {"persist", "finish", "prepared", "done"}
    \/ pc = "crashed" /\ error = "RuntimeError"

\* The style lists of lines 166-169 were written.
ListsWritten ==
    \/ pc \in {"finish", "prepared", "done"}
    \/ pc = "crashed" /\ error = "RuntimeError"

SubsetOf(name) == SeqToSet(splits[name])

\* C1: once the subsets are built, train, val and test are pairwise
\* disjoint as sets of image paths and their union is the set of discovered
\* images.
C1_DisjointCover ==
    SplitBuilt =>
        /\ SubsetOf("train") \cap SubsetOf("val") = {}
        /\ SubsetOf("train") \cap SubsetOf("test") = {}
        /\ SubsetOf("val") \cap SubsetOf("test") = {}
        /\ SubsetOf("train") \cup SubsetOf("val") \cup SubsetOf("test")
              = SeqToSet(discovered)

\* C2: for N discovered images the subsets have floor(0.70 N),
\* floor(0.85 N) - floor(0.70 N) and N - floor(0.85 N) members.
C2_SliceSizes ==
    SplitBuilt =>
        LET N == Len(discovered)
        IN  /\ Len(splits.train) = (70 * N) \div 100
            /\ Len(splits.val) = (85 * N) \div 100 - (70 * N) \div 100
            /\ Len(splits.test) = N - (85 * N) \div 100

\* The first run got as far as building its subsets.
PrevSplitBuilt == prev.outcome = "done" \/ prev.error = "RuntimeError"

SamePartition ==
    \A name \in SeqToSet(SplitNames) : SubsetOf(name) = SeqToSet(prev.splits[name])

\* C3 as stated: two runs on the same set of images give the same
\* partition, whatever order discovery returned the images in.
C3_SamePartitionAnyOrder ==
    (run = 2 /\ SplitBuilt /\ PrevSplitBuilt
       /\ SeqToSet(discovered) = SeqToSet(prev.discovered))
        => SamePartition

\* C3 as amended: two runs in which discovery returned the same images in
\* the same order give the same partition.
C3_SamePartitionSameOrder ==
    (run = 2 /\ SplitBuilt /\ PrevSplitBuilt /\ discovered = prev.discovered)
        => SamePartition

\* A second run has split, as the first did, two or more images discovered
\* in the same order.
C3_Witness ==
    /\ run = 2
    /\ pc = "done"
    /\ prev.outcome = "done"
    /\ discovered = prev.discovered
    /\ Cardinality(SeqToSet(discovered)) >= 2

\* C4: two runs on an unchanged raw directory (whose walk lists the images
\* in the same order both times) that both complete leave the same label
\* files with the same content in each subset.
C4_SameLabels ==
    (run = 2 /\ pc = "done" /\ prev.outcome = "done" /\ discovered = prev.discovered)
        => out_labels = prev.out_labels

StyleUniverse ==
    SeqToSet(DirNames) \cup {"Unknown", "Train", "trainval", "images", "train"}

\* The number of copied test-subset items attributed to a category.
TestCount(c) ==
    Cardinality({i \in DOMAIN log : log[i].split = "test" /\ log[i].style = c})

\* C5: after the lists are persisted a category has a list file if and only
\* if more than 5 copied test-subset items were attributed to it and it is
\* not "Unknown".
C5_ListIffMoreThanFive ==
    ListsWritten =>
        \A c \in StyleUniverse :
            (c \in DOMAIN out_lists) <=> (c # "Unknown" /\ TestCount(c) > 5)

\* A run has written a list for one category and none for another that
\* has members.
C5_Witness ==
    /\ pc = "done"
    /\ "Cubism" \in DOMAIN out_lists
    /\ "Baroque" \notin DOMAIN out_lists
    /\ TestCount("Baroque") > 0

\* The objects of a file that the converter accepts.
AcceptedObjects(xml) ==
    {i \in DOMAIN xml.objects :
        /\ xml.objects[i].name.k = "text"
        /\ LowerStrip(xml.objects[i].name.s) \in SeqToSet(classes)}

PositiveSize(xml) ==
    /\ xml.wellformed
    /\ xml.size.present
    /\ xml.size.width.k = "num" /\ xml.size.width.v > 0
    /\ xml.size.height.k = "num" /\ xml.size.height.v > 0

\* Every value of every returned line is a fraction in [0,1].
LinesInUnit(lines) ==
    \A i \in DOMAIN lines :
        \A v \in {lines[i].cx, lines[i].cy, lines[i].bw, lines[i].bh} :
            0 <= v /\ v <= 1000000

\* C6 as stated: positive dimensions and an accepted object put every value
\* of every returned line in [0,1].
C6_AlwaysInUnit ==
    (cx_called /\ PositiveSize(cx_xml) /\ AcceptedObjects(cx_xml) # {}
       /\ cx_result.lines # <<>>)
        => LinesInUnit(cx_result.lines)

\* The box of an object lies inside the image and is not inverted.
BoxInside(xml, i) ==
    LET b == xml.objects[i].bndbox
    IN  /\ 0 <= b.xmin.v /\ b.xmin.v <= b.xmax.v /\ b.xmax.v <= xml.size.width.v
        /\ 0 <= b.ymin.v /\ b.ymin.v <= b.ymax.v /\ b.ymax.v <= xml.size.height.v

\* C6 as amended: when moreover every accepted box lies inside the image
\* with xmin <= xmax and ymin <= ymax, every value of every returned line is
\* in [0,1].
C6_InsideInUnit ==
    (cx_called /\ PositiveSize(cx_xml) /\ AcceptedObjects(cx_xml) # {}
       /\ cx_result.lines # <<>>
       /\ \A i \in AcceptedObjects(cx_xml) : BoxInside(cx_xml, i))
        => LinesInUnit(cx_result.lines)

\* A file with two accepted boxes inside the image was converted.
C6_Witness ==
    /\ cx_called
    /\ PositiveSize(cx_xml)
    /\ Cardinality(AcceptedObjects(cx_xml)) = 2
    /\ \A i \in AcceptedObjects(cx_xml) : BoxInside(cx_xml, i)
    /\ Len(cx_result.lines) = 2

\* A field the converter reads does not convert.
Unreadable(f) == f.k # "num"

\* The file fails to parse: the markup, the size block, a dimension, the
\* name of an object, or the box of an accepted object.
ParseFailure(xml) ==
    \/ ~xml.wellformed
    \/ ~xml.size.present
    \/ Unreadable(xml.size.width)
    \/ Unreadable(xml.size.height)
    \/ \E i \in DOMAIN xml.objects : xml.objects[i].name.k # "text"
    \/ \E i \in AcceptedObjects(xml) :
          LET b == xml.objects[i].bndbox
          IN  \/ ~b.present
              \/ Unreadable(b.xmin) \/ Unreadable(b.xmax)
              \/ Unreadable(b.ymin) \/ Unreadable(b.ymax)

ZeroDimension(xml) ==
    /\ xml.wellformed /\ xml.size.present
    /\ \/ xml.size.width.k = "num" /\ xml.size.width.v = 0
       \/ xml.size.height.k = "num" /\ xml.size.height.v = 0

\* C7: convert_xml never raises, and a file that fails to parse or has a
\* zero dimension yields the empty sequence.
C7_FailsSoft ==
    cx_called =>
        /\ ~cx_result.raised
        /\ (ParseFailure(cx_xml) \/ ZeroDimension(cx_xml)) => cx_result.lines = <<>>

\* A file whose first object converts and whose second has no box was
\* converted to nothing.
C7_Witness ==
    /\ cx_called
    /\ PositiveSize(cx_xml)
    /\ Len(cx_xml.objects) = 2
    /\ AcceptedObjects(cx_xml) = {1, 2}
    /\ BoxInside(cx_xml, 1)
    /\ ~cx_xml.objects[2].bndbox.present
    /\ cx_result.lines = <<>>

\* C8: prepare_data_split fails with 'no images found' exactly when no
\* image was discovered, with 'no valid pairs found' exactly when nothing
\* was copied, with no other error, and main runs no phase after a failure.
C8_OnlyTwoFatalErrors ==
    /\ error \in {"none", "FileNotFoundError", "RuntimeError"}
    /\ pc = "crashed" => ~phases_run
    /\ error = "FileNotFoundError" => discovered = <<>>
    /\ error = "RuntimeError" => processed_count = 0
    /\ (pc \in {"prepared", "done"}) => (discovered # <<>> /\ processed_count > 0)

\* C9: on a case-sensitive file system, no identifier has a label file in
\* two subsets and no two source images were written to one output path.
C9_UniqueItems ==
    (platform = "posix" /\ LoopDone) =>
        /\ \A p, q \in DOMAIN out_labels : p.id = q.id => p.split = q.split
        /\ \A i, j \in DOMAIN log :
              log[i].img # log[j].img =>
                  /\ log[i].dest # log[j].dest
                  /\ LabelPath(log[i].split, FileId(log[i].img))
                        # LabelPath(log[j].split, FileId(log[j].img))

\* The category the claim attributes to an image.
ClaimedCategory(img) ==
    IF has_imagesets /\ FileId(img) \in DOMAIN style_map
    THEN style_map[FileId(img)]
    ELSE IF img.dir \in {"JPEGImages", "images", "train", "val", "test"}
         THEN "Unknown"
         ELSE img.dir

\* The output paths of the copied test-subset items the claim puts in a
\* category, in the order they were copied.
ClaimedList(c) ==
    LET sel == SelectSeq(log, LAMBDA e : e.split = "test" /\ ClaimedCategory(e.img) = c)
    IN  [i \in 1..Len(sel) |-> sel[i].dest]

\* C10: every copied test-subset item got the category of the membership
\* map, else of its parent directory, else "Unknown"; each per-category
\* list holds exactly the output paths of the test-subset items of that
\* category, and there is no list for "Unknown".
C10_Attribution ==
    (pc \in {"process", "persist", "finish", "prepared", "done"}) =>
        /\ \A i \in DOMAIN log :
              log[i].split = "test" => log[i].style = ClaimedCategory(log[i].img)
        /\ "Unknown" \notin DOMAIN style_file_buffers
        /\ \A c \in StyleUniverse \ {"Unknown"} :
              (IF c \in DOMAIN style_file_buffers THEN style_file_buffers[c] ELSE <<>>)
                  = ClaimedList(c)

\* A run copied a test-subset item of a blocked folder that the membership
\* map names, and a train item.
C10_Witness ==
    /\ pc = "done"
    /\ \E i, k \in DOMAIN log :
          /\ log[i].split = "test" /\ log[i].img.dir = "JPEGImages"
          /\ log[i].style = "Baroque"
          /\ style_file_buffers["Baroque"] = <<log[i].dest>>
          /\ log[k].split = "train"

\* The first step of prepare_data_split (lines 96-97) is behind the run.
AfterFirstStep ==
    pc \in {"index", "styles", "discover", "shuffle", "process", "persist",
            "finish", "prepared", "done", "crashed"}

\* The processed root holds no file an earlier run wrote: none from before
\* this process, and none of the first run when this is the second.
NoEarlierFile ==
    /\ ~out_stale
    /\ run = 2 =>
          /\ \A f \in DOMAIN out_images : \E i \in DOMAIN log : FileOf(platform, log[i].dest) = f
          /\ \A f \in DOMAIN out_labels :
                \E i \in DOMAIN log : LabelPath(log[i].split, FileId(log[i].img)) = f
          /\ (out_lists # EmptyMap => pc \in {"finish", "prepared", "done", "crashed"})

\* C11: in every state after the first step of prepare_data_split, the
\* state of the failure with 'no images found' included, the processed
\* output root exists and holds no file written by an earlier run.
C11_RootExistsAndFresh ==
    AfterFirstStep => (out_exists /\ NoEarlierFile)

\* C11, the half about earlier files only: after the first step the
\* processed root holds no file written by an earlier run.
C11_NoEarlierFile ==
    AfterFirstStep => NoEarlierFile

\* The two conditions of the claim: the identifier of the image has an
\* entry in the annotation index, and convert_xml returns a line for it.
Indexed(img) == [stem |-> img.stem, inner |-> ""] \in DOMAIN xml_map
Converts(img) ==
    convert_xml(xml_map[[stem |-> img.stem, inner |-> ""]].content).lines # <<>>
MeetsBoth(img) == Indexed(img) /\ Converts(img)

\* <processed>/images/<split>/<basename of the image>
ImageFileIn(split, img) ==
    [split |-> split, stem |-> img.stem,
     ext |-> IF platform = "windows" THEN LowerExt(img.ext) ELSE img.ext]

\* <processed>/labels/<split>/<stem of the image>.txt
LabelFileIn(split, img) ==
    [split |-> split, id |-> [stem |-> img.stem, inner |-> ""]]

\* The positions of a subset that the loop of lines 132-164 has been through.
Handled(n) ==
    IF LoopDone \/ (pc = "process" /\ n < si) THEN DOMAIN splits[SplitNames[n]]
    ELSE IF pc = "process" /\ n = si /\ entered THEN 1..(ii - 1)
    ELSE {}

\* The number of images of a subset that met both conditions.
MetCount(split) ==
    Cardinality({k \in DOMAIN splits[split] : MeetsBoth(splits[split][k])})

\* C12: an image of a subset that the loop has handled has its copy in the
\* image directory of the subset and a label file of the same stem in the
\* label directory of the subset if and only if its identifier is in the
\* annotation index and convert_xml returns at least one line for the
\* indexed annotation, and otherwise has neither; no other image or label
\* file is written; and after the loop each per-subset counter is the number
\* of images of the subset that met both conditions, the counters summing to
\* the count of copied items.
C12_PairIffBothConditions ==
    SplitBuilt =>
        /\ \A n \in DOMAIN SplitNames : \A k \in Handled(n) :
              LET split == SplitNames[n]
                  img == splits[split][k]
              IN  IF MeetsBoth(img)
                  THEN /\ ImageFileIn(split, img) \in DOMAIN out_images
                       /\ out_images[ImageFileIn(split, img)] \in SubsetOf(split)
                       /\ LabelFileIn(split, img) \in DOMAIN out_labels
                       /\ out_labels[LabelFileIn(split, img)] # <<>>
                  ELSE /\ ImageFileIn(split, img) \notin DOMAIN out_images
                       /\ LabelFileIn(split, img) \notin DOMAIN out_labels
        /\ \A f \in DOMAIN out_images :
              \E n \in DOMAIN SplitNames : \E k \in Handled(n) :
                 /\ f = ImageFileIn(SplitNames[n], splits[SplitNames[n]][k])
                 /\ MeetsBoth(splits[SplitNames[n]][k])
        /\ \A f \in DOMAIN out_labels :
              \E n \in DOMAIN SplitNames : \E k \in Handled(n) :
                 /\ f = LabelFileIn(SplitNames[n], splits[SplitNames[n]][k])
                 /\ MeetsBoth(splits[SplitNames[n]][k])
        /\ LoopDone =>
              /\ \A n \in DOMAIN SplitNames : stats[SplitNames[n]] = MetCount(SplitNames[n])
              /\ stats.train + stats.val + stats.test = processed_count

\* A finished run had an image whose indexed annotation gave no line, which
\* was left out, and an image that met both conditions, which was copied
\* with its label file and counted.
C12_Witness ==
    /\ pc = "done"
    /\ \E b, c \in SeqToSet(discovered) :
          /\ Indexed(b) /\ ~Converts(b)
          /\ \A split \in SeqToSet(SplitNames) :
                /\ ImageFileIn(split, b) \notin DOMAIN out_images
                /\ LabelFileIn(split, b) \notin DOMAIN out_labels
          /\ MeetsBoth(c)
          /\ \E split \in SeqToSet(SplitNames) :
                /\ c \in SubsetOf(split)
                /\ ImageFileIn(split, c) \in DOMAIN out_images
                /\ LabelFileIn(split, c) \in DOMAIN out_labels
                /\ stats[split] = 1
    /\ processed_count < Len(discovered)

====
